---- MODULE Spec2Model ----
(***************************************************************************)
(* A model of the two tabu-search loops of the repository:                 *)
(*   - BaseSolution.tabu_search            (src/tsp/abc.py, 43-64)         *)
(*   - MultiObjectiveSolution.tabu_search  (src/ts/abc/multi_ob/           *)
(*                                          solutions.py, 76-131)          *)
(* One behaviour is one call of one of the two entry points; `prog` says   *)
(* which.  The abstract collaborators (cost, neighborhoods, candidates,    *)
(* callbacks) are inputs: every finite candidate sequence over a small     *)
(* solution space is a possible run.                                       *)
(***************************************************************************)
EXTENDS Integers, Sequences, FiniteSets, TLC

(* ------------------------------ bounds -------------------------------- *)
\* single-objective: number of solution representations
MaxSol == 4
\* single-objective: largest iterations_count a call is given
MaxIterations == 4
\* single-objective: neighborhoods returned by get_neighborhoods()
MaxNeighborhoods == 2
\* candidates one neighborhood yields at most (both loops)
MaxCandidates == 2
\* multi-objective: largest iterations_count a call is given
MaxIterationsM == 2
\* multi-objective: longest propagation list one iteration builds
MaxPropagate == 2
\* the shuffle_after argument of the stagnation scenario
ShuffleAfter == 3
\* Pareto insertion on its own: candidates inserted into one front
MaxInserts == 4
\* tabu memory: largest maxlen given to reset_tabu
MaxTabu == 3
\* tabu memory: moves recorded after one reset_tabu
MaxMoves == 4

VARIABLES
    prog,                 \* "single" or "multi": the entry point called
    pc,                   \* position of the call in its code
    iterations_count,     \* argument iterations_count
    iteration,            \* iterations of the for loop started so far
    exc,                  \* exception that left the call ("none" if none)
    interrupted,          \* TRUE once a KeyboardInterrupt was delivered
    \* ---- BaseSolution.tabu_search
    result,               \* the incumbent
    best_candidate,       \* best candidate of the iteration, None = 0
    nbh,                  \* index of the neighborhood being enumerated
    ncand,                \* candidates the current neighborhood has yielded
    retval,               \* the value returned, 0 before the return
    post_optimized,       \* TRUE iff retval came out of post_optimization()
    stagnation,           \* history: consecutive completed iterations that
                          \* left `result` unchanged
    seen,                 \* history: the candidates generated so far in the
                          \* iteration under way
    \* ---- MultiObjectiveSolution.tabu_search
    initial,              \* cls.initial()
    results,              \* the Pareto front
    current,              \* solutions that propagate in this iteration
    propagate,            \* the propagation list being built
    sidx,                 \* index into current of the solution being expanded
    candidate_costs,      \* None, or the costs kept for the plot
    pool,                 \* "none", "open" or "terminated"
    retset,               \* the set returned, {} before the return
    post_pool,            \* state of the pool handed to post_optimization,
                          \* "unused" before the call
    propagation_predicate,
    propagation_priority_key,
    max_propagation,
    plot_pareto_front,
    \* ---- add_to_pareto_set applied on its own (prog = "pareto")
    pfront,               \* the front
    phist,                \* history: the candidates inserted, in order
    pprev,                \* history: the front before the last insertion
    padded,               \* what the last insertion reported
    \* ---- the tabu memory of one neighborhood kind (prog = "tabu")
    tabu,                 \* the memory, oldest entry first
    tabu_maxlen,          \* its capacity
    recorded              \* history: the moves recorded since reset_tabu

vars == <<prog, pc, iterations_count, iteration, exc, interrupted,
          result, best_candidate, nbh, ncand, retval, post_optimized, stagnation,
          initial, results, current, propagate, sidx, candidate_costs, pool,
          retset, post_pool, propagation_predicate, propagation_priority_key,
          max_propagation, plot_pareto_front, seen,
          pfront, phist, pprev, padded, tabu, tabu_maxlen, recorded>>

svars == <<result, best_candidate, nbh, retval, post_optimized, stagnation,
           seen>>

xvars == <<pfront, phist, pprev, padded, tabu, tabu_maxlen, recorded>>

mvars == <<initial, results, current, propagate, sidx, candidate_costs, pool,
           retset, post_pool>>

config == <<prog, iterations_count, propagation_predicate,
            propagation_priority_key, max_propagation, plot_pareto_front>>

(* ===================== single-objective solutions ===================== *)

\* A solution is its representation 1..MaxSol.
SSolutions == 1..MaxSol

\* best_candidate = None
None == 0

\* cost() is a pure function of the representation; two representations
\* share each cost, so cost-equal solutions that differ exist.
cost(s) == (s + 1) \div 2

\* __lt__: comparison by cost only
Less(a, b) == cost(a) < cost(b)

\* Python's min(a, b) over __lt__: the first argument unless the second is
\* strictly smaller.
PyMin_Last(a, b) == IF Less(a, b) THEN a ELSE b
PyMin(a, b) == IF Less(b, a) THEN b ELSE a

\* best_candidate after one more candidate (lines 50-53)
TrackBest_Last(best, c) == c
TrackBest(best, c) == IF best = None THEN c ELSE PyMin(best, c)

\* the acceptance rule, line 58
Accept_Always(res, best) == best
Accept(res, best) == PyMin(res, best)

\* BaseSolution.post_optimization: the default implementation returns self
post_optimization(s) == s

(* ================== BaseSolution.tabu_search (abc.py) ================= *)

\* for _ in range(iterations_count): one more iteration is due
LoopRuns_OneMore(done, count) == done <= count
LoopRuns(done, count) == done < count

\* the value the KeyboardInterrupt handler returns (line 64)
InterruptValue_Best(res, best) == IF best = None THEN res ELSE best
InterruptValue(res, best) == res

\* lines 46-47: the loop header admits an iteration, best_candidate = None
S_BeginIteration ==
    /\ prog = "single" /\ pc = "loop"
    /\ LoopRuns(iteration, iterations_count)
    /\ iteration' = iteration + 1
    /\ best_candidate' = None
    /\ seen' = {}
    /\ nbh' = 1
    /\ ncand' = 0
    /\ pc' = "generate"
    /\ UNCHANGED <<result, retval, post_optimized, stagnation, exc, interrupted>>
    /\ UNCHANGED config /\ UNCHANGED xvars /\ UNCHANGED mvars

\* line 46: range(iterations_count) is exhausted
S_LoopExhausted ==
    /\ prog = "single" /\ pc = "loop"
    /\ ~LoopRuns(iteration, iterations_count)
    /\ pc' = "post"
    /\ UNCHANGED <<iteration, ncand, exc, interrupted>>
    /\ UNCHANGED svars /\ UNCHANGED config /\ UNCHANGED xvars /\ UNCHANGED mvars

\* lines 49-53: the neighborhood being enumerated yields candidate c
S_Candidate(c) ==
    /\ prog = "single" /\ pc = "generate"
    /\ nbh <= MaxNeighborhoods
    /\ ncand < MaxCandidates
    /\ best_candidate' = TrackBest(best_candidate, c)
    /\ seen' = seen \cup {c}
    /\ ncand' = ncand + 1
    /\ UNCHANGED <<pc, iteration, result, nbh, retval, post_optimized,
                   stagnation, exc, interrupted>>
    /\ UNCHANGED config /\ UNCHANGED xvars /\ UNCHANGED mvars

\* lines 48-49: generate() of the neighborhood is exhausted, on to the next
S_NeighborhoodDone ==
    /\ prog = "single" /\ pc = "generate"
    /\ nbh <= MaxNeighborhoods
    /\ nbh' = nbh + 1
    /\ ncand' = 0
    /\ UNCHANGED <<pc, iteration, result, best_candidate, retval,
                   post_optimized, stagnation, seen, exc, interrupted>>
    /\ UNCHANGED config /\ UNCHANGED xvars /\ UNCHANGED mvars

\* lines 55-58: break at a local optimum, or accept and loop
S_EndIteration ==
    /\ prog = "single" /\ pc = "generate"
    /\ nbh > MaxNeighborhoods
    /\ IF best_candidate = None
       THEN /\ pc' = "post"
            /\ UNCHANGED <<result, stagnation>>
       ELSE /\ result' = Accept(result, best_candidate)
            /\ stagnation' = IF result' = result THEN stagnation + 1 ELSE 0
            /\ pc' = "loop"
    /\ UNCHANGED <<iteration, best_candidate, nbh, ncand, retval,
                   post_optimized, seen, exc, interrupted>>
    /\ UNCHANGED config /\ UNCHANGED xvars /\ UNCHANGED mvars

\* line 60: return result.post_optimization()
S_Return ==
    /\ prog = "single" /\ pc = "post"
    /\ retval' = post_optimization(result)
    /\ post_optimized' = TRUE
    /\ pc' = "returned"
    /\ UNCHANGED <<iteration, result, best_candidate, nbh, ncand, stagnation,
                   seen, exc, interrupted>>
    /\ UNCHANGED config /\ UNCHANGED xvars /\ UNCHANGED mvars

\* lines 62-64: KeyboardInterrupt anywhere inside the try block
S_KeyboardInterrupt ==
    /\ prog = "single" /\ pc \in {"loop", "generate", "post"}
    /\ retval' = InterruptValue(result, best_candidate)
    /\ interrupted' = TRUE
    /\ pc' = "returned"
    /\ UNCHANGED <<iteration, result, best_candidate, nbh, ncand,
                   post_optimized, stagnation, seen, exc>>
    /\ UNCHANGED config /\ UNCHANGED xvars /\ UNCHANGED mvars

(* ===================== multi-objective solutions ====================== *)

\* A multi-objective solution is compared and hashed by its cost vector
\* alone, so it is modelled as that vector.  Two values per component give
\* every dominance pattern: equal, comparable and incomparable vectors, and
\* a vector that dominates two incomparable ones.
MSolutions == {<<1, 1>>, <<1, 2>>, <<2, 1>>, <<2, 2>>}

\* cls.initial(): a 2-objective solution (the worst one, or one on the
\* front), or one of a problem with another number of objectives
InitialSolutions ==
    {<<2, 2>>, <<1, 2>>, <<1>>, <<1, 1, 1>>}

\* BaseMulticostComparison.dominates
dominates(a, b) ==
    /\ Len(a) = Len(b)
    /\ \A i \in 1..Len(a) : a[i] <= b[i]
    /\ \E i \in 1..Len(a) : a[i] < b[i]

\* BaseMulticostComparison.add_to_pareto_set: the front afterwards and
\* whether the candidate was added
add_to_pareto_set_Keep(c, front) ==
    IF \E m \in front : dominates(m, c)
    THEN [front |-> front, added |-> FALSE]
    ELSE [front |-> front \cup {c}, added |-> TRUE]
add_to_pareto_set(c, front) ==
    IF \E m \in front : dominates(m, c)
    THEN [front |-> front, added |-> FALSE]
    ELSE [front |-> {m \in front : ~dominates(c, m)} \cup {c}, added |-> TRUE]

\* the front after line 101 has handled candidate c
FrontAfter_Add(c, front) == front \cup {c}
FrontAfter(c, front) == add_to_pareto_set(c, front).front

\* the propagation predicates a caller may pass: utils.true (the default),
\* and one that reads the front (it holds while the front has one member)
Predicates == {"true", "small"}

ApplyPredicate(p, front, c) ==
    CASE p = "true" -> TRUE
      [] p = "small" -> Cardinality(front) < 2

\* the priority keys a caller may pass: utils.zero (the default), and the
\* first cost component
PriorityKeys == {"zero", "first"}

ApplyKey(k, front, c) ==
    CASE k = "zero" -> 0
      [] k = "first" -> c[1]

\* max_propagation: None, an int, or a function of the front (its size)
MaxPropagations ==
    {[kind |-> "none", value |-> 0], [kind |-> "func", value |-> 0]}
    \cup {[kind |-> "int", value |-> n] : n \in {-1, 0, 1}}

\* line 106: max_propagation_value
max_propagation_value(mp, front) ==
    IF mp.kind = "int" THEN mp.value ELSE Cardinality(front)

\* Python's seq[:n]
Slice_All(seq, n) == seq
Slice(seq, n) ==
    IF n >= 0
    THEN SubSeq(seq, 1, IF n < Len(seq) THEN n ELSE Len(seq))
    ELSE SubSeq(seq, 1, IF Len(seq) + n > 0 THEN Len(seq) + n ELSE 0)

\* list.sort(key=...): stable, ascending
RECURSIVE InsertByKey(_, _, _, _)
InsertByKey(sorted, x, k, front) ==
    IF sorted = <<>> THEN <<x>>
    ELSE IF ApplyKey(k, front, x) < ApplyKey(k, front, Head(sorted))
         THEN <<x>> \o sorted
         ELSE <<Head(sorted)>> \o InsertByKey(Tail(sorted), x, k, front)

RECURSIVE SortByKey(_, _, _)
SortByKey(seq, k, front) ==
    IF seq = <<>> THEN <<>>
    ELSE InsertByKey(SortByKey(SubSeq(seq, 1, Len(seq) - 1), k, front),
                     seq[Len(seq)], k, front)

\* MultiObjectiveSolution.post_optimization(pool, pool_size, use_tqdm):
\* the default implementation returns self
post_optimization_pool(r, p) == r

\* line 84: candidate_costs is None, or a list that only the plot reads
\* (lines 109-118); the content of the list is not modelled
InitialCandidateCosts(init, plot) == IF plot THEN "list" ELSE "None"

\* lines 98-99: appending leaves a list a list, and None None
RecordCost(cc, c) == cc

(* ======== MultiObjectiveSolution.tabu_search (solutions.py) =========== *)

\* line 85: the condition under which ValueError is raised
WrongObjectives_Never(init, plot) == FALSE
WrongObjectives(init, plot) == Len(init) # 2

\* leaving `with Pool(pool_size) as pool:` calls pool.terminate(), whether the
\* block ends normally ("normal") or by an exception ("exception")
PoolAfterWith_Leak(p, how) == IF how = "normal" THEN "terminated" ELSE p
PoolAfterWith(p, how) == "terminated"

\* whether line 101 appends the candidate to the propagation list
Propagates(c, front, pred) ==
    add_to_pareto_set(c, front).added
        \/ ApplyPredicate(pred, FrontAfter(c, front), c)

\* lines 104-107: `current` for the next iteration
NextCurrent_Restart(cur, prop, front, key, mp) ==
    IF mp.kind # "none"
    THEN LET s == Slice(SortByKey(prop, key, front),
                        max_propagation_value(mp, front))
         IN  IF s = <<>> /\ cur = <<>>
             THEN <<CHOOSE r \in front : TRUE>>
             ELSE s
    ELSE cur
NextCurrent(cur, prop, front, key, mp) ==
    IF mp.kind # "none"
    THEN Slice(SortByKey(prop, key, front), max_propagation_value(mp, front))
    ELSE cur

\* lines 85-87: the check on the number of objectives
M_CheckObjectives ==
    /\ prog = "multi" /\ pc = "check"
    /\ IF WrongObjectives(initial, plot_pareto_front)
       THEN pc' = "raised" /\ exc' = "ValueError"
       ELSE pc' = "pool" /\ exc' = exc
    /\ UNCHANGED <<iteration, ncand, interrupted>>
    /\ UNCHANGED config /\ UNCHANGED xvars /\ UNCHANGED svars /\ UNCHANGED mvars

\* line 89: with Pool(pool_size) as pool
M_AcquirePool ==
    /\ prog = "multi" /\ pc = "pool"
    /\ pool' = "open"
    /\ pc' = "loop"
    /\ UNCHANGED <<iteration, ncand, exc, interrupted, initial, results, current, propagate,
                   sidx, candidate_costs, retset, post_pool>>
    /\ UNCHANGED config /\ UNCHANGED xvars /\ UNCHANGED svars

\* lines 90-94: one more iteration, propagate = []
M_BeginIteration ==
    /\ prog = "multi" /\ pc = "loop"
    /\ LoopRuns(iteration, iterations_count)
    /\ iteration' = iteration + 1
    /\ propagate' = <<>>
    /\ sidx' = 1
    /\ pc' = "solutions"
    /\ UNCHANGED <<ncand, exc, interrupted, initial, results, current, candidate_costs,
                   pool, retset, post_pool>>
    /\ UNCHANGED config /\ UNCHANGED xvars /\ UNCHANGED svars

\* line 90: the iterations are exhausted; the with block is left normally
M_LoopExhausted ==
    /\ prog = "multi" /\ pc = "loop"
    /\ ~LoopRuns(iteration, iterations_count)
    /\ pool' = PoolAfterWith(pool, "normal")
    /\ pc' = "post"
    /\ UNCHANGED <<iteration, ncand, exc, interrupted, initial, results, current, propagate,
                   sidx, candidate_costs, retset, post_pool>>
    /\ UNCHANGED config /\ UNCHANGED xvars /\ UNCHANGED svars

\* lines 95-97: the next solution of `current`; one of its neighborhoods,
\* chosen at random, is asked for its candidates
M_PickNeighborhood ==
    /\ prog = "multi" /\ pc = "solutions"
    /\ sidx <= Len(current)
    /\ ncand' = 0
    /\ pc' = "candidates"
    /\ UNCHANGED <<iteration, exc, interrupted>>
    /\ UNCHANGED config /\ UNCHANGED xvars /\ UNCHANGED svars /\ UNCHANGED mvars

\* lines 97-102: find_best_candidates yields candidate c
M_Candidate(c) ==
    /\ prog = "multi" /\ pc = "candidates"
    /\ ncand < MaxCandidates
    /\ Len(propagate) < MaxPropagate
    /\ ncand' = ncand + 1
    /\ candidate_costs' = RecordCost(candidate_costs, c)
    /\ results' = FrontAfter(c, results)
    /\ propagate' = IF Propagates(c, results, propagation_predicate)
                    THEN Append(propagate, c)
                    ELSE propagate
    /\ UNCHANGED <<pc, iteration, exc, interrupted, initial, current, sidx, pool, retset,
                   post_pool>>
    /\ UNCHANGED config /\ UNCHANGED xvars /\ UNCHANGED svars

\* line 97: the candidates of this neighborhood are exhausted
M_CandidatesDone ==
    /\ prog = "multi" /\ pc = "candidates"
    /\ sidx' = sidx + 1
    /\ pc' = "solutions"
    /\ UNCHANGED <<iteration, ncand, exc, interrupted, initial, results, current, propagate,
                   candidate_costs, pool, retset, post_pool>>
    /\ UNCHANGED config /\ UNCHANGED xvars /\ UNCHANGED svars

\* lines 104-107: sort the propagation list, set `current`
M_EndIteration ==
    /\ prog = "multi" /\ pc = "solutions"
    /\ sidx > Len(current)
    /\ propagate' = SortByKey(propagate, propagation_priority_key, results)
    /\ current' = NextCurrent(current, propagate, results,
                              propagation_priority_key, max_propagation)
    /\ pc' = "loop"
    /\ UNCHANGED <<iteration, ncand, exc, interrupted, initial, results, sidx,
                   candidate_costs, pool, retset, post_pool>>
    /\ UNCHANGED config /\ UNCHANGED xvars /\ UNCHANGED svars

\* lines 109-131: (plot,) post-optimize every member of the front, return
M_Return ==
    /\ prog = "multi" /\ pc = "post"
    /\ retset' = {post_optimization_pool(r, pool) : r \in results}
    /\ post_pool' = pool
    /\ pc' = "returned"
    /\ UNCHANGED <<iteration, ncand, exc, interrupted, initial, results, current, propagate,
                   sidx, candidate_costs, pool>>
    /\ UNCHANGED config /\ UNCHANGED xvars /\ UNCHANGED svars

\* lines 96-101: get_neighborhoods, find_best_candidates or a propagation
\* callback raises; nothing catches it, the with block releases the pool
M_Raise ==
    /\ prog = "multi" /\ pc \in {"solutions", "candidates"}
    /\ pool' = PoolAfterWith(pool, "exception")
    /\ exc' = "Exception"
    /\ pc' = "raised"
    /\ UNCHANGED <<iteration, ncand, interrupted, initial, results, current, propagate,
                   sidx, candidate_costs, retset, post_pool>>
    /\ UNCHANGED config /\ UNCHANGED xvars /\ UNCHANGED svars

\* KeyboardInterrupt inside the with block (lines 89-107): there is no
\* except clause, the with block releases the pool and the interruption
\* leaves the call
M_KeyboardInterrupt ==
    /\ prog = "multi" /\ pc \in {"loop", "solutions", "candidates"}
    /\ pool' = PoolAfterWith(pool, "exception")
    /\ exc' = "KeyboardInterrupt"
    /\ interrupted' = TRUE
    /\ pc' = "raised"
    /\ UNCHANGED <<iteration, ncand, initial, results, current, propagate,
                   sidx, candidate_costs, retset, post_pool>>
    /\ UNCHANGED config /\ UNCHANGED xvars /\ UNCHANGED svars

(* ============================ the system ============================== *)

\* abc.py line 44: result = cls.initial()
InitSingle ==
    /\ prog = "single"
    /\ pc = "loop"
    /\ iterations_count \in 0..MaxIterations
    /\ result \in SSolutions
    /\ best_candidate = None
    /\ nbh = 1
    /\ retval = 0
    /\ post_optimized = FALSE
    /\ stagnation = 0
    /\ seen = {}
    /\ initial = <<>>
    /\ results = {}
    /\ current = <<>>
    /\ propagate = <<>>
    /\ sidx = 1
    /\ candidate_costs = InitialCandidateCosts(<<>>, FALSE)
    /\ propagation_predicate = "true"
    /\ propagation_priority_key = "zero"
    /\ max_propagation = [kind |-> "none", value |-> 0]
    /\ plot_pareto_front = FALSE

\* solutions.py lines 76-84
InitMulti ==
    /\ prog = "multi"
    /\ pc = "check"
    /\ iterations_count \in {0, MaxIterationsM}
    /\ initial \in InitialSolutions
    /\ results = {initial}
    /\ current = <<initial>>
    /\ propagate = <<>>
    /\ sidx = 1
    /\ plot_pareto_front \in BOOLEAN
    /\ candidate_costs = InitialCandidateCosts(initial, plot_pareto_front)
    /\ propagation_predicate \in Predicates
    /\ propagation_priority_key \in PriorityKeys
    /\ max_propagation \in MaxPropagations
    /\ result = 0
    /\ best_candidate = None
    /\ nbh = 1
    /\ retval = 0
    /\ post_optimized = FALSE
    /\ stagnation = 0
    /\ seen = {}

Init ==
    /\ iteration = 0
    /\ ncand = 0
    /\ exc = "none"
    /\ interrupted = FALSE
    /\ pool = "none"
    /\ retset = {}
    /\ post_pool = "unused"
    /\ pfront = {}
    /\ phist = <<>>
    /\ pprev = {}
    /\ padded = FALSE
    /\ tabu = <<>>
    /\ tabu_maxlen = 0
    /\ recorded = <<>>
    /\ (InitSingle \/ InitMulti)

Next ==
    \/ S_BeginIteration
    \/ S_LoopExhausted
    \/ \E c \in SSolutions : S_Candidate(c)
    \/ S_NeighborhoodDone
    \/ S_EndIteration
    \/ S_Return
    \/ S_KeyboardInterrupt
    \/ M_CheckObjectives
    \/ M_AcquirePool
    \/ M_BeginIteration
    \/ M_LoopExhausted
    \/ M_PickNeighborhood
    \/ \E c \in MSolutions : M_Candidate(c)
    \/ M_CandidatesDone
    \/ M_EndIteration
    \/ M_Return
    \/ M_Raise
    \/ M_KeyboardInterrupt

Spec == Init /\ [][Next]_vars

\* The calls in which no KeyboardInterrupt is delivered and no collaborator
\* raises: every step is a step of the loop's own code.
NextQuiet ==
    \/ S_BeginIteration
    \/ S_LoopExhausted
    \/ \E c \in SSolutions : S_Candidate(c)
    \/ S_NeighborhoodDone
    \/ S_EndIteration
    \/ S_Return
    \/ M_CheckObjectives
    \/ M_AcquirePool
    \/ M_BeginIteration
    \/ M_LoopExhausted
    \/ M_PickNeighborhood
    \/ \E c \in MSolutions : M_Candidate(c)
    \/ M_CandidatesDone
    \/ M_EndIteration
    \/ M_Return

\* The interpreter runs the call's next statement whenever there is one, and a
\* generator either yields its next candidate or ends.
LiveSpec == Init /\ [][NextQuiet]_vars /\ WF_vars(NextQuiet)

(* ============================= the claims ============================= *)

NonDominated(front) == \A a \in front : \A b \in front : ~dominates(a, b)

\* C1: in the multi-objective search no member of the front dominates
\* another, in every state of the run (so at every iteration boundary), and
\* no member of the returned set dominates another.
C1_FrontNonDominated ==
    prog = "multi" => NonDominated(results) /\ NonDominated(retset)

\* C1 witness: an iteration has ended with a two-member front from which the
\* initial solution was removed by a candidate that dominates it.
C1_Witness ==
    /\ prog = "multi" /\ pc = "loop" /\ iteration >= 1
    /\ Cardinality(results) = 2
    /\ initial \notin results

\* C2: in the single-objective search no step raises the incumbent's cost.
C2_CostNonIncreasing ==
    [][prog = "single" => cost(result') <= cost(result)]_vars

\* C2 witness: an iteration has ended whose best candidate was strictly worse
\* than the incumbent, which was kept.
C2_Witness ==
    /\ prog = "single" /\ pc = "loop" /\ iteration >= 1
    /\ best_candidate # None
    /\ cost(best_candidate) > cost(result)

\* C3: both loops start at most iterations_count iterations, and without an
\* interruption (and with neighborhoods that yield finite sequences) a call
\* that has entered its loop reaches its return.
C3_BoundedAndTerminates ==
    /\ [](iteration <= iterations_count)
    /\ (pc \in {"loop", "generate", "solutions", "candidates"})
           ~> (pc = "returned")

\* C3 witness: a multi-objective call has returned after running its whole
\* budget of iterations.
C3_Witness ==
    /\ prog = "multi" /\ pc = "returned"
    /\ iterations_count = MaxIterationsM
    /\ iteration = iterations_count

\* C4: a KeyboardInterrupt delivered to the single-objective search is not
\* propagated: the call has returned normally and the value returned is the
\* incumbent, which only the end of an iteration assigns.
C4_InterruptReturnsIncumbent ==
    (prog = "single" /\ interrupted) =>
        (pc = "returned" /\ exc = "none" /\ retval = result)

\* C4 witness: the interruption came in the middle of an iteration that had
\* already seen a candidate better than the incumbent.
C4_Witness ==
    /\ prog = "single" /\ interrupted /\ pc = "returned"
    /\ best_candidate # None
    /\ cost(best_candidate) < cost(result)

\* C5 (as claimed): a KeyboardInterrupt delivered to the multi-objective
\* search is caught: the call returns the non-empty front accumulated so far
\* and no exception leaves it.
C5_InterruptReturnsFront ==
    (prog = "multi" /\ interrupted) =>
        (pc = "returned" /\ exc = "none" /\ retset = results /\ retset # {})

\* C6: whenever the multi-objective search has left the with block or the
\* call (the return, an exception of a collaborator, an interruption), the
\* pool is not open.
C6_PoolReleased ==
    (prog = "multi" /\ pc \in {"post", "returned", "raised"}) => pool # "open"

\* C6 witness: a collaborator raised inside the with block and the pool was
\* terminated.
C6_Witness ==
    /\ prog = "multi" /\ pc = "raised" /\ exc = "Exception"
    /\ pool = "terminated"

\* C7 (as claimed): after shuffle_after consecutive non-improving iterations
\* the incumbent is replaced by a shuffled solution, so `result` is never left
\* unchanged by more than shuffle_after consecutive iterations.
C7_ShuffleAfterStagnation ==
    prog = "single" => stagnation <= ShuffleAfter

\* C8 (as claimed): whatever the exit path of the single-objective search,
\* the value returned came out of result.post_optimization().
C8_PostOptimizationOnEveryExit ==
    (prog = "single" /\ pc = "returned") =>
        (post_optimized /\ retval = post_optimization(result))

\* what C9 says `current` is after an iteration: the sorted propagation list,
\* truncated only if max_propagation is set
C9_Expected ==
    LET sorted == SortByKey(propagate, propagation_priority_key, results)
    IN  IF max_propagation.kind = "none"
        THEN sorted
        ELSE Slice(sorted, max_propagation_value(max_propagation, results))

\* C9 (as claimed): the step that ends an iteration of the multi-objective
\* search makes `current` the sorted propagation list, truncated to
\* max_propagation if that is set and whole if it is None.
C9_CurrentIsPropagationList ==
    [][(prog = "multi" /\ pc = "solutions" /\ pc' = "loop")
           => current' = C9_Expected]_vars

\* C10: with plot_pareto_front set and an initial cost that has not exactly
\* 2 components, the call does nothing but raise ValueError: the pool is never
\* acquired, no iteration starts (no neighborhood is asked for candidates) and
\* the front holds the initial solution alone.
C10_FailsFast ==
    (prog = "multi" /\ plot_pareto_front /\ Len(initial) # 2) =>
        /\ pc \in {"check", "raised"}
        /\ pc = "raised" => exc = "ValueError"
        /\ pool = "none"
        /\ iteration = 0
        /\ propagate = <<>>
        /\ results = {initial}
        /\ current = <<initial>>

\* C10 witness: the ValueError was raised for a 3-objective problem.
C10_Witness ==
    /\ prog = "multi" /\ plot_pareto_front /\ Len(initial) = 3
    /\ pc = "raised" /\ exc = "ValueError"

\* C11 (as claimed): with plot_pareto_front disabled the multi-objective
\* search raises no ValueError, whatever the number of cost components.
C11_NoCheckWithoutPlot ==
    (prog = "multi" /\ ~plot_pareto_front) => exc # "ValueError"

\* C13 (as claimed): the pool that post_optimization receives is still
\* acquired (open) at the moment of the call.
C13_PostOptimizationPoolOpen ==
    prog = "multi" => post_pool \in {"unused", "open"}

(* ================= add_to_pareto_set on its own ======================= *)

\* the cost vectors inserted: those of the search, and three more with which
\* the front can hold three members
PVectors == MSolutions \cup {<<1, 5>>, <<5, 1>>, <<3, 3>>}

\* candidate.add_to_pareto_set(front), as line 101 of solutions.py calls it
P_Insert(c) ==
    /\ prog = "pareto"
    /\ Len(phist) < MaxInserts
    /\ pfront' = add_to_pareto_set(c, pfront).front
    /\ padded' = add_to_pareto_set(c, pfront).added
    /\ pprev' = pfront
    /\ phist' = Append(phist, c)
    /\ UNCHANGED <<pc, iteration, ncand, exc, interrupted, tabu, tabu_maxlen,
                   recorded>>
    /\ UNCHANGED config /\ UNCHANGED svars /\ UNCHANGED mvars

\* the variables of the two searches, at rest
SearchIdle ==
    /\ pc = "idle"
    /\ iterations_count = 0
    /\ iteration = 0
    /\ ncand = 0
    /\ exc = "none"
    /\ interrupted = FALSE
    /\ result = 0
    /\ best_candidate = None
    /\ nbh = 1
    /\ retval = 0
    /\ post_optimized = FALSE
    /\ stagnation = 0
    /\ seen = {}
    /\ initial = <<>>
    /\ results = {}
    /\ current = <<>>
    /\ propagate = <<>>
    /\ sidx = 1
    /\ candidate_costs = InitialCandidateCosts(<<>>, FALSE)
    /\ pool = "none"
    /\ retset = {}
    /\ post_pool = "unused"
    /\ propagation_predicate = "true"
    /\ propagation_priority_key = "zero"
    /\ max_propagation = [kind |-> "none", value |-> 0]
    /\ plot_pareto_front = FALSE

\* an empty front
InitPareto ==
    /\ prog = "pareto"
    /\ SearchIdle
    /\ pfront = {}
    /\ phist = <<>>
    /\ pprev = {}
    /\ padded = FALSE
    /\ tabu = <<>>
    /\ tabu_maxlen = 0
    /\ recorded = <<>>

NextPareto == \E c \in PVectors : P_Insert(c)

ParetoSpec == InitPareto /\ [][NextPareto]_vars

(* ========================== the tabu memory =========================== *)

\* the moves (or move signatures) a neighborhood kind records
Moves == {"a", "b", "c"}

\* recording a move in a memory of capacity maxlen: the oldest entry is
\* evicted when the memory is full
TabuAppend_NoEvict(t, m, maxlen) == Append(t, m)
TabuAppend(t, m, maxlen) ==
    IF maxlen = 0 THEN <<>>
    ELSE IF Len(t) < maxlen THEN Append(t, m)
         ELSE Append(Tail(t), m)

\* Swap.reset_tabu(maxlen=...): the memory is emptied and resized
T_ResetTabu(maxlen) ==
    /\ prog = "tabu"
    /\ tabu' = <<>>
    /\ tabu_maxlen' = maxlen
    /\ recorded' = <<>>
    /\ UNCHANGED <<pc, iteration, ncand, exc, interrupted, pfront, phist,
                   pprev, padded>>
    /\ UNCHANGED config /\ UNCHANGED svars /\ UNCHANGED mvars

\* an accepted move is recorded
T_Record(m) ==
    /\ prog = "tabu"
    /\ Len(recorded) < MaxMoves
    /\ tabu' = TabuAppend(tabu, m, tabu_maxlen)
    /\ recorded' = Append(recorded, m)
    /\ UNCHANGED <<pc, iteration, ncand, exc, interrupted, tabu_maxlen,
                   pfront, phist, pprev, padded>>
    /\ UNCHANGED config /\ UNCHANGED svars /\ UNCHANGED mvars

\* the memory right after reset_tabu(maxlen)
InitTabu ==
    /\ prog = "tabu"
    /\ SearchIdle
    /\ pfront = {}
    /\ phist = <<>>
    /\ pprev = {}
    /\ padded = FALSE
    /\ tabu = <<>>
    /\ tabu_maxlen \in 0..MaxTabu
    /\ recorded = <<>>

NextTabu ==
    \/ \E maxlen \in 0..MaxTabu : T_ResetTabu(maxlen)
    \/ \E m \in Moves : T_Record(m)

TabuSpec == InitTabu /\ [][NextTabu]_vars

(* ======================= the claims, continued ======================== *)

\* dominance of 2-component cost vectors, written out
Dom2(a, b) == a[1] <= b[1] /\ a[2] <= b[2] /\ a # b

\* C12: an insertion into a front that holds a member dominating the
\* candidate leaves the front unchanged and reports not added; any other
\* insertion removes exactly the members the candidate dominates, adds the
\* candidate and reports added.  Inserting (1,5), (5,1), (3,3), (2,2) in that
\* order into the empty front yields {(1,5), (5,1), (2,2)}.
C12_ParetoInsertion ==
    /\ phist # <<>> =>
          LET c == phist[Len(phist)]
          IN  IF \E m \in pprev : Dom2(m, c)
              THEN pfront = pprev /\ ~padded
              ELSE /\ pfront = {m \in pprev : ~Dom2(c, m)} \cup {c}
                   /\ padded
    /\ phist = <<<<1, 5>>, <<5, 1>>, <<3, 3>>, <<2, 2>>>>
          => pfront = {<<1, 5>>, <<5, 1>>, <<2, 2>>}

\* C12 witness: the four insertions of the scenario have been made.
C12_Witness ==
    /\ prog = "pareto"
    /\ phist = <<<<1, 5>>, <<5, 1>>, <<3, 3>>, <<2, 2>>>>
    /\ pprev = {<<1, 5>>, <<5, 1>>, <<3, 3>>}
    /\ padded

\* the last n entries of a sequence
LastN(seq, n) == SubSeq(seq, Len(seq) - n + 1, Len(seq))

\* C15: the tabu memory never holds more than maxlen entries; it holds the
\* min(maxlen, number of moves recorded) most recent moves, oldest first; and
\* it is empty when nothing was recorded since reset_tabu.
C15_TabuCapacity ==
    prog = "tabu" =>
        /\ Len(tabu) <= tabu_maxlen
        /\ tabu = LastN(recorded, IF Len(recorded) < tabu_maxlen
                                  THEN Len(recorded) ELSE tabu_maxlen)
        /\ recorded = <<>> => tabu = <<>>

\* C15 witness: more moves were recorded than the memory holds, the oldest
\* ones were evicted.
C15_Witness ==
    /\ prog = "tabu"
    /\ tabu_maxlen = 2
    /\ recorded = <<"a", "b", "c", "a">>
    /\ tabu = <<"c", "a">>

\* C16: best_candidate is a minimum-cost element of the candidates generated
\* so far in the iteration (None when there are none); acceptance happens
\* only after every neighborhood was enumerated; the loop breaks exactly when
\* no neighborhood produced a candidate, with the result unchanged; and a
\* neighborhood that ends, with or without candidates, leaves the iteration
\* running.
C16_BestCandidateIsMinimum ==
    /\ [](prog = "single" =>
            IF seen = {}
            THEN best_candidate = None
            ELSE /\ best_candidate \in seen
                 /\ \A c \in seen : cost(best_candidate) <= cost(c))
    /\ [][(prog = "single" /\ pc = "generate") =>
            /\ (pc' \in {"loop", "post"}) => nbh > MaxNeighborhoods
            /\ (pc' = "post") => (seen = {} /\ result' = result)
            /\ (pc' = "loop") => seen # {}
            /\ (nbh' # nbh) => pc' = "generate"]_vars

\* C16 witness: the loop broke before its budget was used up, because an
\* iteration produced no candidate.
C16_Witness ==
    /\ prog = "single"
    /\ pc = "post"
    /\ iteration >= 1
    /\ iteration < iterations_count
    /\ best_candidate = None

\* C17 (as claimed): a candidate is appended to the propagation list iff its
\* insertion reported added or the predicate, evaluated on the front after
\* the insertion attempt, held; and every member of the next `current` is a
\* member of the propagation list of the iteration just completed.
C17_PropagationRule ==
    [][prog = "multi" =>
        /\ (pc = "candidates" /\ ncand' = ncand + 1) =>
              \E c \in MSolutions :
                  LET r == add_to_pareto_set(c, results)
                  IN  /\ results' = r.front
                      /\ IF r.added
                            \/ ApplyPredicate(propagation_predicate, r.front, c)
                         THEN propagate' = Append(propagate, c)
                         ELSE propagate' = propagate
        /\ (pc = "solutions" /\ pc' = "loop") =>
              \A i \in 1..Len(current') :
                  \E j \in 1..Len(propagate) : propagate[j] = current'[i]]_vars

\* C18 (as claimed): whenever max_propagation is set, whatever integer the
\* cap is, the next `current` holds at most that many solutions and at most
\* as many as the propagation list.
C18_CapBoundsCurrent ==
    [][(prog = "multi" /\ pc = "solutions" /\ pc' = "loop"
            /\ max_propagation.kind # "none") =>
        /\ Len(current') <= max_propagation_value(max_propagation, results)
        /\ Len(current') <= Len(propagate)]_vars

\* C18 (amended): whenever max_propagation is set and the cap, given directly
\* or returned by the function of the current front, is not negative, the
\* next `current` holds at most that many solutions and at most as many as
\* the propagation list.
C18_NonNegativeCapBoundsCurrent ==
    [][(prog = "multi" /\ pc = "solutions" /\ pc' = "loop"
            /\ max_propagation.kind # "none"
            /\ max_propagation_value(max_propagation, results) >= 0) =>
        /\ Len(current') <= max_propagation_value(max_propagation, results)
        /\ Len(current') <= Len(propagate)]_vars

\* C18 witness: an iteration ended with two propagating candidates under a
\* cap of one, and one of them is the next `current`.
C18_Witness ==
    /\ prog = "multi"
    /\ pc = "loop"
    /\ iteration >= 1
    /\ max_propagation = [kind |-> "int", value |-> 1]
    /\ Len(propagate) = 2
    /\ Len(current) = 1
    /\ current[1] = propagate[1]

\* C19: the incumbent changes only to the iteration's best candidate and only
\* when that candidate costs strictly less; a best candidate of equal or
\* greater cost leaves `result` as it is; and best_candidate is replaced only
\* by a candidate of strictly lower cost, so the first of equal-cost
\* candidates is kept.
C19_StrictImprovementOnly ==
    [][prog = "single" =>
        /\ (result' # result) =>
              (cost(result') < cost(result) /\ result' = best_candidate)
        /\ (pc = "generate" /\ pc' = "loop"
                /\ cost(best_candidate) >= cost(result)) => result' = result
        /\ (pc = "generate" /\ best_candidate # None
                /\ best_candidate' # best_candidate) =>
              cost(best_candidate') < cost(best_candidate)]_vars

\* C19 witness: an iteration ended whose best candidate costs what the
\* incumbent costs and is a different solution; the incumbent stayed, and a
\* later candidate of the same cost did not replace the best candidate.
C19_Witness ==
    /\ prog = "single"
    /\ pc = "loop"
    /\ iteration >= 1
    /\ best_candidate # None
    /\ best_candidate # result
    /\ cost(best_candidate) = cost(result)
    /\ \E c \in seen : c # best_candidate /\ cost(c) = cost(best_candidate)

\* C20: once `current` is empty it stays empty, no neighborhood is queried,
\* the front does not change, and the search runs out its iterations and
\* returns the front.
C20_EmptyCurrentStaysEmpty ==
    /\ [][(prog = "multi" /\ current = <<>>) =>
            /\ current' = <<>>
            /\ results' = results
            /\ pc' # "candidates"]_vars
    /\ (prog = "multi" /\ current = <<>>) ~>
            (/\ pc = "returned"
             /\ exc = "none"
             /\ iteration = iterations_count
             /\ retset = results)

\* C20 witness: a later iteration is running on an empty `current`.
C20_Witness ==
    /\ prog = "multi"
    /\ pc = "solutions"
    /\ current = <<>>
    /\ iteration >= 2
    /\ iteration = iterations_count

====
